---------------------------- MODULE Spec2Model ----------------------------
(***************************************************************************)
(* Model of the skin-lesion inference pipeline (src/inference.py,          *)
(* src/utils.py, src/config.py, src/model.py) and of the Dash callback     *)
(* that drives it (src/app.py, cb_run_inference).                          *)
(*                                                                         *)
(* Numbers.  Tensors are float32 in the program.  A float is modelled as   *)
(* an integer number of quanta of 2^-28, rounded after every operation to  *)
(* a 24-bit significand (round to nearest, ties to even), so that sums,    *)
(* differences and quotients round as they do in the program for values    *)
(* of 2^-4 and more, and to the quantum below that.                        *)
(*                                                                         *)
(* Network.  SkinCancerHybrid_Pro is modelled as a small deterministic     *)
(* function of (parameter blob, image view, metadata vector) with the      *)
(* same topology: a position-wise last block in stream B whose output is   *)
(* pooled over positions, a position-sensitive stream A, a metadata       *)
(* branch, and a linear head producing one logit per class.                *)
(***************************************************************************)
EXTENDS Integers, Sequences, FiniteSets, TLC

VARIABLES
    weights,        \* model parameters: the blob held by the module-level `model`
    loaded,         \* whether load_state_dict succeeded at import
    training,       \* model.training (FALSE after model.eval())
    sortBuild,      \* how this build's np.argsort orders equal keys
    hooks,          \* explainer ids whose hooks sit on the target layer, in order
    explAct,        \* explainer id -> captured activations (<<>> is None)
    explGrad,       \* explainer id -> captured gradients (<<>> is None)
    paramGrad,      \* the parameters' accumulated .grad (contributions since zero_grad)
    calls,          \* callback invocations so far
    pc,             \* position of the running callback
    req,            \* the callback's arguments (image, age, sex, loc)
    image_tensor,   \* run_inference local
    meta_tensor,    \* run_inference local
    fwdLog,         \* forward passes of this call: <<[x, meta, grad]>>
    probs_sum,      \* predict_tta accumulator
    probs,          \* ensemble mean
    sorted_indices, \* np.argsort(probs)[::-1]
    grad_cam,       \* id of this call's CustomGradCAM
    cam_heatmap,    \* what generate returned
    result,         \* the dictionary run_inference returns (<<>> before)
    rendered,       \* what the callback returned to the page
    prev,           \* inputs and result of the last completed call
    viewLogits      \* per-view logits drawn for the ensemble function (<<>> otherwise)

vars == <<weights, loaded, training, sortBuild, hooks, explAct, explGrad,
          paramGrad, calls, pc, req, image_tensor, meta_tensor, fwdLog,
          probs_sum, probs, sorted_indices, grad_cam, cam_heatmap, result,
          rendered, prev, viewLogits>>

-----------------------------------------------------------------------------
(* Bounds of the model *)

\* callback invocations explored
MaxCalls == 2
\* largest parameter blob id (the contents of the weight file, or the random init)
MaxBlob == 1
\* largest logit drawn for a view in the ensemble function's specification
MaxLogit == 2
\* largest activation and gradient magnitude drawn in the saliency function's
\* specification
MaxAct == 1
MaxGrad == 1
\* brightest pixel level of a decoded image (0 is dark)
MaxPx == 2

(* Program constants *)

\* CONFIG['num_classes']
num_classes == 7
\* CONFIG['num_meta_features']
num_meta_features == 19
\* significand bits of torch.float32 / np.float32
SigBits == 24

-----------------------------------------------------------------------------
(* Generic helpers *)

Range(s) == {s[i] : i \in DOMAIN s}

\* f itself, tabulated: comparing a function makes TLC evaluate it at every
\* argument once, instead of re-evaluating its body at each application
Tabulated(f) == IF f = f THEN f ELSE f

RECURSIVE SumSeq(_)
SumSeq(s) == IF s = <<>> THEN 0 ELSE Head(s) + SumSeq(Tail(s))

RECURSIVE SumOver(_, _)
SumOver(f, S) ==
    IF S = {} THEN 0
    ELSE LET x == CHOOSE y \in S : TRUE IN f[x] + SumOver(f, S \ {x})

SetMax(S) == CHOOSE x \in S : \A y \in S : y <= x
SetMin(S) == CHOOSE x \in S : \A y \in S : x <= y

-----------------------------------------------------------------------------
(* float32 arithmetic on quanta of 2^-28 *)

\* 1.0
One == 2^(SigBits + 4)
\* 2^24: the first integer with more than SigBits bits
Mant == 2^SigBits

\* spacing of the representable floats around x >= 0
RECURSIVE Ulp(_)
Ulp(x) == IF x < Mant THEN 1 ELSE 2 * Ulp(x \div 2)

\* base + rest/m rounded to a multiple of g, for a multiple base of g and
\* 0 <= rest < g * m: to the nearest, and to the even one of two equally near
RoundToGrid(base, rest, m, g) ==
    IF 2 * rest > g * m THEN base + g
    ELSE IF 2 * rest < g * m THEN base
    ELSE IF (base \div g) % 2 = 1 THEN base + g ELSE base

RoundWithUlp(q0, r, m, g) == RoundToGrid(q0 - (q0 % g), (q0 % g) * m + r, m, g)

\* the float nearest to the exact value q0 + r/m (0 <= r < m), ties to even
RoundQuot(q0, r, m) == RoundWithUlp(q0, r, m, Ulp(q0))

\* the float nearest to the integer number of quanta x
Fl(x) == RoundQuot(x, 0, 1)

\* float addition and subtraction (a >= b >= 0)
FAdd(a, b) == Fl(a + b)
\* mutant: the operands are added
FSubAdds(a, b) == Fl(a + b)
FSub(a, b) == Fl(a - b)

\* the float nearest to x/m in [0,1], for integers 0 <= x <= m, m > 0
FRatio(x, m) == RoundQuot((One \div m) * x + ((One % m) * x) \div m, ((One % m) * x) % m, m)

\* the float nearest to a/n for a float a and an integer n > 0
FDivInt(a, n) == RoundQuot(a \div n, a % n, n)

-----------------------------------------------------------------------------
(* src/config.py *)

Classes == 0 .. (num_classes - 1)

LESION_TYPE_DICT ==
    << "Melanocytic nevi", "Melanoma", "Benign keratosis",
       "Basal cell carcinoma", "Actinic keratoses",
       "Vascular lesions", "Dermatofibroma" >>

\* {i: name for i, name in enumerate(LESION_TYPE_DICT.values())}
IDX_TO_CLASS == [i \in 0 .. (Len(LESION_TYPE_DICT) - 1) |-> LESION_TYPE_DICT[i + 1]]

\* mutant: the catalog lists "other" in place of "unknown"
SEX_COLS_WithOther == << "sex_female", "sex_male", "sex_other" >>
\* mutant: the catalog has lost its last entry
SEX_COLS_Short == << "sex_female", "sex_male" >>
SEX_COLS == << "sex_female", "sex_male", "sex_unknown" >>

LOC_COLS ==
    << "localization_abdomen", "localization_acral", "localization_back",
       "localization_chest", "localization_ear", "localization_face",
       "localization_foot", "localization_genital", "localization_hand",
       "localization_lower extremity", "localization_neck",
       "localization_scalp", "localization_trunk", "localization_unknown",
       "localization_upper extremity" >>

-----------------------------------------------------------------------------
(* src/utils.py: process_metadata *)

\* str.lower() on the strings the model feeds in (all others are lowercase already)
Lower(s) ==
    CASE s = "Male"   -> "male"
      [] s = "FEMALE" -> "female"
      [] s = "Back"   -> "back"
      [] s = "Abdomen" -> "abdomen"
      [] s = "Acral"   -> "acral"
      [] s = "Chest"   -> "chest"
      [] s = "Ear"     -> "ear"
      [] s = "Face"    -> "face"
      [] s = "Foot"    -> "foot"
      [] s = "Genital" -> "genital"
      [] s = "Hand"    -> "hand"
      [] s = "Neck"    -> "neck"
      [] s = "Scalp"   -> "scalp"
      [] s = "Trunk"   -> "trunk"
      [] s = "Unknown" -> "unknown"
      [] s = "Lower Extremity" -> "lower extremity"
      [] s = "Upper Extremity" -> "upper extremity"
      [] OTHER -> s

\* list.index: 0-based position of the first occurrence
\* mutant: the position is counted from 1
IndexOfOneBased(seq, x) == CHOOSE i \in DOMAIN seq : seq[i] = x /\ \A j \in 1 .. (i - 1) : seq[j] # x
IndexOf(seq, x) == (CHOOSE i \in DOMAIN seq : seq[i] = x /\ \A j \in 1 .. (i - 1) : seq[j] # x) - 1

\* mean_age, std_age = 51.86, 16.96, in hundredths of a year
mean_age == 5186
std_age == 1696

\* (age - mean_age) / std_age stored as float32; ages are given in hundredths
\* mutant: the age is clamped to the form's range [0, 120] first
StdAgeClamped(age) ==
    LET a   == IF age < 0 THEN 0 ELSE IF age > 12000 THEN 12000 ELSE age
        num == a - mean_age
    IN  IF num >= 0 THEN FRatio(num, std_age) ELSE 0 - FRatio(0 - num, std_age)
StdAge(age) ==
    LET num == age - mean_age
    IN  IF num >= 0 THEN FRatio(num, std_age) ELSE 0 - FRatio(0 - num, std_age)

process_metadata(age, sex, localization) ==
    LET sex_col == "sex_" \o Lower(sex)
        loc_col == "localization_" \o Lower(localization)
        sex_idx == IF sex_col \in Range(SEX_COLS)
                   THEN {1 + IndexOf(SEX_COLS, sex_col)} ELSE {}
        loc_idx == IF loc_col \in Range(LOC_COLS)
                   THEN {1 + Len(SEX_COLS) + IndexOf(LOC_COLS, loc_col)} ELSE {}
    IN  [i \in 0 .. (num_meta_features - 1) |->
            IF i \in loc_idx THEN One
            ELSE IF i \in sex_idx THEN One
            ELSE IF i = 0 THEN StdAge(age)
            ELSE 0]

-----------------------------------------------------------------------------
(* Images and the geometric views of predict_tta *)

\* side of the (square) image tensor: CONFIG['img_size'] scaled down
GridN == 2

Pos == (1 .. GridN) \X (1 .. GridN)

\* a shaded image no flip or turn maps to itself: brightness grows along
\* the rows up to the brightest level
Ramp == [p \in Pos |->
            IF (p[1] - 1) * GridN + p[2] - 1 < MaxPx
            THEN (p[1] - 1) * GridN + p[2] - 1 ELSE MaxPx]

\* decoded images: dark, one bright pixel, all bright, or the ramp
Images == {x \in [Pos -> {0, MaxPx}] :
              \/ Cardinality({p \in Pos : x[p] # 0}) <= 1
              \/ \A p \in Pos : x[p] # 0}
          \cup {Ramp}

\* get_inference_transforms()(image): ToTensor then Normalize centre the
\* brightness levels, a dark pixel to about -2 and a bright one to about +2
Preprocess(img) == Tabulated([p \in Pos |-> 2 * img[p] - MaxPx])

\* torch.flip(x, [3]): reverse the width axis
FlipW(x) == Tabulated([p \in Pos |-> x[<<p[1], GridN + 1 - p[2]>>]])
\* torch.flip(x, [2]): reverse the height axis
FlipH(x) == Tabulated([p \in Pos |-> x[<<GridN + 1 - p[1], p[2]>>]])
\* torch.rot90(x, 1, [2, 3]): out[i][j] = x[j][n-1-i]
\* mutant: the quarter turn goes the other way, out[i][j] = x[n-1-j][i]
Rot90Clockwise(x) == Tabulated([p \in Pos |-> x[<<GridN + 1 - p[2], p[1]>>]])
Rot90(x) == Tabulated([p \in Pos |-> x[<<p[2], GridN + 1 - p[1]>>]])

\* the list `views` of predict_tta
Views(x) == << x, FlipW(x), FlipH(x), Rot90(x) >>

-----------------------------------------------------------------------------
(* src/model.py: the network *)

WeightBlobs == 0 .. MaxBlob

\* channels of the saliency target layer, stream_b.backbone[-1]
Channels == 1 .. 2

\* parameters, as functions of the blob
Kernel(w, ch) == IF (w + ch) % 2 = 0 THEN 1 ELSE 0 - 1
HeadB(w, c, ch) == ((c * c + w + ch) % 3) - 1
HeadA(w, c) == (c + w) % 4
HeadM(w, c) == (c * w) % 3

\* output of stream_b.backbone[-1] before any hook sees it
LayerOut(w, x) == Tabulated([k \in Channels \X Pos |-> Kernel(w, k[1]) * x[k[2]]])

\* CustomGradCAM._save_activation returns None: the layer's output stands
\* mutant: the hook returns a zeroed tensor, which replaces the output
SaveActivationReturnZeroed(output) == << [k \in DOMAIN output |-> 0] >>
\* mutant: the hook returns the negated tensor, which replaces the output
SaveActivationReturnNegated(output) == << [k \in DOMAIN output |-> 0 - output[k]] >>
SaveActivationReturn(output) == << >>

\* nn.Module.__call__ runs the forward hooks in registration order; a hook
\* that returns a value replaces the output the later hooks and layers see.
\* HookRun(n, out)[i] is the output the i-th hook is called with, and
\* HookRun(n, out)[n + 1] is what leaves the layer.
RECURSIVE HookRun(_, _)
HookRun(n, out) ==
    IF n = 0 THEN << out >>
    ELSE LET r == SaveActivationReturn(out)
         IN  << out >> \o HookRun(n - 1, IF r = << >> THEN out ELSE r[1])

\* EfficientNetStream: avgpool over positions of the (hooked) layer output
PoolB(a) ==
    Tabulated([ch \in Channels |->
                  SumOver([p \in Pos |-> a[<<ch, p>>]], Pos) \div Cardinality(Pos)])

\* ConvNextTransformerStream: position-sensitive through pos_embedding
FeatA(x) == IF x[<<1, 1>>] > 0 THEN 1 ELSE 0

\* meta_net
MetaEmbed(meta) ==
    (IF meta[0] > 0 THEN 1 ELSE 0)
    + (IF \E i \in (1 + Len(SEX_COLS)) .. (num_meta_features - 1) : meta[i] # 0 THEN 1 ELSE 0)

\* skip_attn and classifier: one logit per class from the pooled stream-B
\* features, the stream-A feature and the metadata embedding
Classifier(w, pool, featA, embed) ==
    Tabulated([c \in Classes |->
                  SumOver([ch \in Channels |-> HeadB(w, c, ch) * pool[ch]], Channels)
                  + HeadA(w, c) * featA + HeadM(w, c) * embed])

\* SkinCancerHybrid_Pro.forward in eval mode with n forward hooks on the
\* target layer
Forward(w, x, meta, n) ==
    Classifier(w, PoolB(HookRun(n, LayerOut(w, x))[n + 1]), FeatA(x), MetaEmbed(meta))

\* gradient of logits[0, c] with respect to the target layer's output, in
\* units of 1/|Pos| (the pooling spreads it evenly over the positions)
LayerGrad(w, c) == [k \in Channels \X Pos |-> HeadB(w, c, k[1])]

-----------------------------------------------------------------------------
(* src/inference.py: predict_tta *)

\* torch.nn.functional.softmax(logits, dim=1) in float32; the exponential is
\* taken to base 2 so that the exact quotient is a ratio of integers
Exp2(l, lo) == Tabulated([c \in Classes |-> 2^(l[c] - lo)])
Quotients(e, s) == Tabulated([c \in Classes |-> FRatio(e[c], s)])
SoftmaxOf(e) == Quotients(e, SumOver(e, Classes))
Softmax(l) == SoftmaxOf(Exp2(l, SetMin(Range(l))))

\* torch.zeros(1, CONFIG['num_classes'])
ZeroProbs == [c \in Classes |-> 0]

\* probs_sum += softmax(model(view, meta_batch), dim=1)
\* mutant: `=` for `+=`, each view overwrites the accumulator
AddProbsOverwrite(sum, p) == Tabulated([c \in Classes |-> p[c]])
AddProbs(sum, p) == Tabulated([c \in Classes |-> FAdd(sum[c], p[c])])
Accumulate(sum, logits) == AddProbs(sum, Softmax(logits))

\* probs_sum / len(views)
\* mutant: the sum is divided by one less than the number of views
TtaMeanOffByOne(sum, n) == Tabulated([c \in Classes |-> FDivInt(sum[c], n - 1)])
TtaMean(sum, n) == Tabulated([c \in Classes |-> FDivInt(sum[c], n)])

-----------------------------------------------------------------------------
(* src/inference.py: ranking and result composition in run_inference *)

\* The orders np.argsort may give equal keys: its default kind is not stable.
\* "stable" keeps equal keys in index order (the insertion sort numpy uses on
\* short arrays); "unstable" stands for a build whose sort swaps them.
SortBuilds == {"stable", "unstable"}

\* d sorts before c in np.argsort(p) under the build b
SortsBefore(p, b, d, c) ==
    \/ p[d] < p[c]
    \/ p[d] = p[c] /\ (IF b = "stable" THEN d < c ELSE d > c)

\* np.argsort(p): class indices by ascending probability, as a 1-based sequence
Argsort(p, b) ==
    Tabulated([i \in 1 .. num_classes |->
                  CHOOSE c \in Classes :
                      Cardinality({d \in Classes : SortsBefore(p, b, d, c)}) = i - 1])

\* seq[::-1]
\* mutant: the [::-1] is forgotten
ReversedForgotten(seq) == seq
Reversed(seq) == Tabulated([i \in 1 .. Len(seq) |-> seq[Len(seq) + 1 - i]])

\* np.argsort(probs)[::-1]
SortedIndices(p, b) == Reversed(Argsort(p, b))

\* margin < 0.15 for a float32 margin: 0.15 = 3/20 is no multiple of the
\* quantum, so the comparison is with the next quantum above it
\* mutant: the comparison is turned round
IsBelowThresholdFlipped(margin) == margin > ((3 * One + 19) \div 20)
IsBelowThreshold(margin) == margin < ((3 * One + 19) \div 20)

\* the dictionary run_inference returns
\* mutant: the probabilities are packed in ranked order
ComposeResultRanked(p, sorted, overlay) ==
    LET top_1_idx == sorted[1]
        margin    == FSub(p[top_1_idx], p[sorted[2]])
    IN  [ top_prediction |-> IDX_TO_CLASS[top_1_idx],
          top_confidence |-> p[top_1_idx],
          margin         |-> margin,
          is_uncertain   |-> IsBelowThreshold(margin),
          classes        |-> [i \in 1 .. Len(LESION_TYPE_DICT) |-> IDX_TO_CLASS[i - 1]],
          probabilities  |-> [i \in 1 .. Len(LESION_TYPE_DICT) |-> p[sorted[i]]],
          gradcam_base64 |-> overlay ]
ComposeResult(p, sorted, overlay) ==
    LET top_1_idx == sorted[1]
        margin    == FSub(p[top_1_idx], p[sorted[2]])
    IN  [ top_prediction |-> IDX_TO_CLASS[top_1_idx],
          top_confidence |-> p[top_1_idx],
          margin         |-> margin,
          is_uncertain   |-> IsBelowThreshold(margin),
          classes        |-> [i \in 1 .. Len(LESION_TYPE_DICT) |-> IDX_TO_CLASS[i - 1]],
          probabilities  |-> [i \in 1 .. Len(LESION_TYPE_DICT) |-> p[i - 1]],
          gradcam_base64 |-> overlay ]

-----------------------------------------------------------------------------
(* src/inference.py: CustomGradCAM.generate, lines 59-73 *)

\* float32 results: a number of quanta, or NaN, or infinity
Num(v) == [kind |-> "num", v |-> v]
NaN == [kind |-> "nan", v |-> 0]
Inf == [kind |-> "inf", v |-> 0]

\* numpy float32 division x / m for 0 <= x <= m (it warns, and does not raise,
\* on a zero divisor)
NpDivide(x, m) ==
    IF m = 0 THEN (IF x = 0 THEN NaN ELSE Inf) ELSE Num(FRatio(x, m))

ChannelsOf(t) == {k[1] : k \in DOMAIN t}
PositionsOf(t) == {k[2] : k \in DOMAIN t}

\* np.mean(gradients, axis=(1, 2)), kept as the sum over positions (the mean
\* times the number of positions) so that it stays an integer; the ReLU and
\* the min-max normalisation below do not change under this positive factor
ChannelWeights(gradients) ==
    Tabulated([ch \in ChannelsOf(gradients) |->
                  SumOver([p \in PositionsOf(gradients) |-> gradients[<<ch, p>>]],
                          PositionsOf(gradients))])

\* cam += w * activations[i], over the channels
WeightedSum(activations, w) ==
    Tabulated([p \in PositionsOf(activations) |->
                  SumOver([ch \in ChannelsOf(activations) |-> w[ch] * activations[<<ch, p>>]],
                          ChannelsOf(activations))])
RawCam(activations, gradients) == WeightedSum(activations, ChannelWeights(gradients))

\* np.maximum(cam, 0)
Relu(cam) == Tabulated([p \in DOMAIN cam |-> IF cam[p] > 0 THEN cam[p] ELSE 0])

\* lines 69-71: if np.max(cam) != 0: cam = cam - np.min(cam); cam = cam / np.max(cam)
MinusScalar(cam, lo) == Tabulated([p \in DOMAIN cam |-> cam[p] - lo])
OverScalar(cam, hi) == Tabulated([p \in DOMAIN cam |-> NpDivide(cam[p], hi)])
OverOwnMax(cam) == OverScalar(cam, SetMax(Range(cam)))
Normalize(cam) ==
    IF SetMax(Range(cam)) # 0
    THEN OverOwnMax(MinusScalar(cam, SetMin(Range(cam))))
    ELSE [p \in DOMAIN cam |-> Num(cam[p])]

\* what generate returns from the captured tensors
GenerateCam(activations, gradients) == Normalize(Relu(RawCam(activations, gradients)))

-----------------------------------------------------------------------------
(* src/inference.py lines 134-151: the overlay *)

\* np.uint8(255 * x) of a float in [0,1], truncating
ByteOf(v) == (255 * (v \div 256) + (255 * (v % 256)) \div 256) \div (One \div 256)

\* the outcomes of casting a NaN to uint8, which C leaves undefined
UndefCast == {0, 255}

\* the data URI: the colour-mapped heatmap bytes blended over the resized
\* RGB image, as the pair of its two sources
Overlay(cam, rgb, u) ==
    [ heat |-> [p \in DOMAIN cam |-> IF cam[p].kind = "num" THEN ByteOf(cam[p].v) ELSE u],
      rgb  |-> rgb ]

-----------------------------------------------------------------------------
(* State *)

modelVars == <<weights, loaded, training, sortBuild>>
hookVars  == <<hooks, explAct, explGrad, paramGrad>>
localVars == <<image_tensor, meta_tensor, fwdLog, probs_sum, probs,
               sorted_indices, grad_cam, cam_heatmap, result>>

ExplainerIds == 1 .. MaxCalls

DarkImage == [p \in Pos |-> 0]

\* what the upload component can hold: a decodable image, bytes that do not
\* decode, or nothing
Uploads ==
    {[kind |-> "image", px |-> x] : x \in Images}
    \cup {[kind |-> "corrupt", px |-> DarkImage], [kind |-> "none", px |-> DarkImage]}

\* (age in hundredths of a year, sex, localization) of the requests explored
Patients ==
    { [age |-> 4500, sex |-> "male",   loc |-> "back"],
      [age |-> 7000, sex |-> "FEMALE", loc |-> "mars"] }

NoRequest == [image |-> [kind |-> "none", px |-> DarkImage],
              age |-> 0, sex |-> "", loc |-> ""]

\* no call has returned a result yet
NoPrevious == [req |-> NoRequest, result |-> << >>]

NothingRendered == [kind |-> "nothing", top |-> "", pairs |-> << >>, message |-> ""]

\* state of the interpreter when `import inference` starts: the model has
\* just been constructed (random parameters, training mode)
Init ==
    /\ weights \in WeightBlobs
    /\ loaded = FALSE
    /\ training = TRUE
    /\ sortBuild \in SortBuilds
    /\ hooks = << >>
    /\ explAct = [i \in ExplainerIds |-> << >>]
    /\ explGrad = [i \in ExplainerIds |-> << >>]
    /\ paramGrad = << >>
    /\ calls = 0
    /\ pc = "load"
    /\ req = NoRequest
    /\ image_tensor = << >>
    /\ meta_tensor = << >>
    /\ fwdLog = << >>
    /\ probs_sum = << >>
    /\ probs = << >>
    /\ sorted_indices = << >>
    /\ grad_cam = 0
    /\ cam_heatmap = << >>
    /\ result = << >>
    /\ rendered = NothingRendered
    /\ prev = NoPrevious
    /\ viewLogits = << >>

-----------------------------------------------------------------------------
(* src/inference.py lines 14-31: module import *)

\* model.eval(): Module.training after the call
\* mutant: the call is model.train()
EvalModeTraining == TRUE
EvalMode == FALSE

\* lines 21-25: torch.load and load_state_dict succeed
LoadWeights ==
    /\ pc = "load"
    /\ \E blob \in WeightBlobs : weights' = blob
    /\ loaded' = TRUE
    /\ pc' = "eval"
    /\ UNCHANGED <<training, sortBuild, hookVars, calls, req, localVars,
                   rendered, prev, viewLogits>>

\* lines 26-27: they raise; the exception is printed and dropped
\* mutant: model.to and model.eval sit inside the try block and are skipped
LoadFailsSkipsEval ==
    /\ pc = "load"
    /\ pc' = "idle"
    /\ UNCHANGED <<modelVars, hookVars, calls, req, localVars, rendered, prev,
                   viewLogits>>
LoadFails ==
    /\ pc = "load"
    /\ pc' = "eval"
    /\ UNCHANGED <<modelVars, hookVars, calls, req, localVars, rendered, prev,
                   viewLogits>>

\* lines 30-31: model.to(device); model.eval()
ModelEval ==
    /\ pc = "eval"
    /\ training' = EvalMode
    /\ pc' = "idle"
    /\ UNCHANGED <<weights, loaded, sortBuild, hookVars, calls, req, localVars,
                   rendered, prev, viewLogits>>

-----------------------------------------------------------------------------
(* src/app.py cb_run_inference and src/inference.py run_inference *)

\* the forward hooks of a forward pass: every explainer whose hook sits on
\* the target layer captures the output its hook was called with
ForwardCaptures(hs, w, x, acts) ==
    LET run == HookRun(Len(hs), LayerOut(w, x))
    IN  [id \in DOMAIN acts |->
            IF \E i \in DOMAIN hs : hs[i] = id
            THEN << run[CHOOSE i \in DOMAIN hs : hs[i] = id] >>
            ELSE acts[id]]

\* the backward hooks of score.backward(): every hooked explainer captures
\* grad_output[0]
BackwardCaptures(hs, w, c, grads) ==
    [id \in DOMAIN grads |->
        IF \E i \in DOMAIN hs : hs[i] = id THEN << LayerGrad(w, c) >> ELSE grads[id]]

\* inference.py 107: Image.open(image_bytes) accepts the upload; on bytes
\* that are no image it raises
\* mutant: every upload is taken for an image
DecodesAnything(up) == TRUE
Decodes(up) == up.kind = "image"

\* app.py 887-897, inference.py 107-115: the callback is invoked; with no
\* upload it returns a warning; otherwise run_inference decodes the image
\* (PIL raises on bytes it cannot decode, and the callback's except branch
\* renders the message), preprocesses it and encodes the metadata
Submit ==
    /\ pc = "idle"
    /\ calls < MaxCalls
    /\ \E up \in Uploads, pt \in Patients :
        /\ req' = [image |-> up, age |-> pt.age, sex |-> pt.sex, loc |-> pt.loc]
        /\ calls' = calls + 1
        /\ fwdLog' = << >>
        /\ probs_sum' = << >>
        /\ probs' = << >>
        /\ sorted_indices' = << >>
        /\ grad_cam' = 0
        /\ cam_heatmap' = << >>
        /\ result' = << >>
        /\ IF up.kind = "none"
           THEN /\ rendered' = [NothingRendered EXCEPT !.kind = "warning",
                                    !.message = "No image uploaded."]
                /\ pc' = "idle"
                /\ image_tensor' = << >>
                /\ meta_tensor' = << >>
           ELSE IF ~ Decodes(up)
           THEN /\ rendered' = [NothingRendered EXCEPT !.kind = "error",
                                    !.message = "cannot identify image file"]
                /\ pc' = "idle"
                /\ image_tensor' = << >>
                /\ meta_tensor' = << >>
           ELSE /\ rendered' = NothingRendered
                /\ pc' = "tta_start"
                /\ image_tensor' = Preprocess(up.px)
                /\ meta_tensor' = process_metadata(pt.age, pt.sex, pt.loc)
    /\ UNCHANGED <<modelVars, hookVars, prev, viewLogits>>

\* predict_tta lines 80-92: model.eval(), the views, the zero accumulator
TtaStart ==
    /\ pc = "tta_start"
    /\ training' = EvalMode
    /\ probs_sum' = ZeroProbs
    /\ pc' = "tta"
    /\ UNCHANGED <<weights, loaded, sortBuild, hookVars, calls, req,
                   image_tensor, meta_tensor, fwdLog, probs, sorted_indices,
                   grad_cam, cam_heatmap, result, rendered, prev, viewLogits>>

\* predict_tta lines 93-97: one iteration of the loop, under torch.no_grad()
\* mutant: the view is made in place, overwriting the preprocessed tensor
TtaForwardInPlace ==
    /\ pc = "tta"
    /\ Len(fwdLog) < Len(Views(image_tensor))
    /\ LET view == Views(image_tensor)[Len(fwdLog) + 1]
       IN  /\ probs_sum' = Accumulate(probs_sum,
                               Forward(weights, view, meta_tensor, Len(hooks)))
           /\ explAct' = ForwardCaptures(hooks, weights, view, explAct)
           /\ image_tensor' = view
           /\ fwdLog' = Append(fwdLog, [x |-> view, meta |-> meta_tensor,
                                        grad |-> FALSE, training |-> training])
    /\ UNCHANGED <<modelVars, hooks, explGrad, paramGrad, calls, pc, req,
                   meta_tensor, probs, sorted_indices, grad_cam,
                   cam_heatmap, result, rendered, prev, viewLogits>>
\* mutant: the pass runs with gradients and is followed by a backward pass
TtaForwardWithBackward ==
    /\ pc = "tta"
    /\ Len(fwdLog) < Len(Views(image_tensor))
    /\ LET view == Views(image_tensor)[Len(fwdLog) + 1]
       IN  /\ probs_sum' = Accumulate(probs_sum,
                               Forward(weights, view, meta_tensor, Len(hooks)))
           /\ explAct' = ForwardCaptures(hooks, weights, view, explAct)
           /\ paramGrad' = Append(paramGrad, [x |-> view, meta |-> meta_tensor,
                                              target |-> 0])
           /\ fwdLog' = Append(fwdLog, [x |-> view, meta |-> meta_tensor,
                                        grad |-> FALSE, training |-> training])
    /\ UNCHANGED <<modelVars, hooks, explGrad, calls, pc, req,
                   image_tensor, meta_tensor, probs, sorted_indices, grad_cam,
                   cam_heatmap, result, rendered, prev, viewLogits>>
TtaForward ==
    /\ pc = "tta"
    /\ Len(fwdLog) < Len(Views(image_tensor))
    /\ LET view == Views(image_tensor)[Len(fwdLog) + 1]
       IN  /\ probs_sum' = Accumulate(probs_sum,
                               Forward(weights, view, meta_tensor, Len(hooks)))
           /\ explAct' = ForwardCaptures(hooks, weights, view, explAct)
           /\ fwdLog' = Append(fwdLog, [x |-> view, meta |-> meta_tensor,
                                        grad |-> FALSE, training |-> training])
    /\ UNCHANGED <<modelVars, hooks, explGrad, paramGrad, calls, pc, req,
                   image_tensor, meta_tensor, probs, sorted_indices, grad_cam,
                   cam_heatmap, result, rendered, prev, viewLogits>>

\* predict_tta line 99 and run_inference lines 118-121
TtaFinish ==
    /\ pc = "tta"
    /\ Len(fwdLog) = Len(Views(image_tensor))
    /\ probs' = TtaMean(probs_sum, Len(Views(image_tensor)))
    /\ sorted_indices' = SortedIndices(probs', sortBuild)
    /\ pc' = "cam_init"
    /\ UNCHANGED <<modelVars, hookVars, calls, req, image_tensor, meta_tensor,
                   fwdLog, probs_sum, grad_cam, cam_heatmap, result, rendered,
                   prev, viewLogits>>

\* run_inference lines 124-129, CustomGradCAM.__init__: a new explainer
\* registers its forward and backward hook on the target layer
CamInit ==
    /\ pc = "cam_init"
    /\ grad_cam' = calls
    /\ hooks' = Append(hooks, calls)
    /\ explAct' = [explAct EXCEPT ![calls] = << >>]
    /\ explGrad' = [explGrad EXCEPT ![calls] = << >>]
    /\ pc' = "cam_forward"
    /\ UNCHANGED <<modelVars, paramGrad, calls, req, image_tensor, meta_tensor,
                   fwdLog, probs_sum, probs, sorted_indices, cam_heatmap,
                   result, rendered, prev, viewLogits>>

\* generate lines 53-56: zero_grad, then the gradient-tracked forward pass
\* mutant: model.zero_grad() is left out
CamForwardKeepsGrads ==
    /\ pc = "cam_forward"
    /\ explAct' = ForwardCaptures(hooks, weights, image_tensor, explAct)
    /\ fwdLog' = Append(fwdLog, [x |-> image_tensor, meta |-> meta_tensor,
                                 grad |-> TRUE, training |-> training])
    /\ pc' = "cam_backward"
    /\ UNCHANGED <<modelVars, hooks, explGrad, paramGrad, calls, req,
                   image_tensor, meta_tensor, probs_sum, probs, sorted_indices,
                   grad_cam, cam_heatmap, result, rendered, prev, viewLogits>>
\* mutant: the forward pass is run a second time
CamForwardRetried ==
    /\ pc = "cam_forward"
    /\ paramGrad' = << >>
    /\ explAct' = ForwardCaptures(hooks, weights, image_tensor, explAct)
    /\ fwdLog' = fwdLog \o
                    << [x |-> image_tensor, meta |-> meta_tensor,
                        grad |-> TRUE, training |-> training],
                       [x |-> image_tensor, meta |-> meta_tensor,
                        grad |-> TRUE, training |-> training] >>
    /\ pc' = "cam_backward"
    /\ UNCHANGED <<modelVars, hooks, explGrad, calls, req, image_tensor,
                   meta_tensor, probs_sum, probs, sorted_indices, grad_cam,
                   cam_heatmap, result, rendered, prev, viewLogits>>
CamForward ==
    /\ pc = "cam_forward"
    /\ paramGrad' = << >>
    /\ explAct' = ForwardCaptures(hooks, weights, image_tensor, explAct)
    /\ fwdLog' = Append(fwdLog, [x |-> image_tensor, meta |-> meta_tensor,
                                 grad |-> TRUE, training |-> training])
    /\ pc' = "cam_backward"
    /\ UNCHANGED <<modelVars, hooks, explGrad, calls, req, image_tensor,
                   meta_tensor, probs_sum, probs, sorted_indices, grad_cam,
                   cam_heatmap, result, rendered, prev, viewLogits>>

\* generate line 57: score.backward() from logits[0, target_class]
\* mutant: the backward pass is followed by a parameter update
CamBackwardWithUpdate ==
    /\ pc = "cam_backward"
    /\ weights' = (weights + 1) % (MaxBlob + 1)
    /\ explGrad' = BackwardCaptures(hooks, weights, sorted_indices[1], explGrad)
    /\ paramGrad' = Append(paramGrad, [x |-> image_tensor, meta |-> meta_tensor,
                                       target |-> sorted_indices[1]])
    /\ pc' = "cam_generate"
    /\ UNCHANGED <<loaded, training, sortBuild, hooks, explAct, calls, req,
                   image_tensor, meta_tensor, fwdLog, probs_sum, probs,
                   sorted_indices, grad_cam, cam_heatmap, result, rendered,
                   prev, viewLogits>>
CamBackward ==
    /\ pc = "cam_backward"
    /\ explGrad' = BackwardCaptures(hooks, weights, sorted_indices[1], explGrad)
    /\ paramGrad' = Append(paramGrad, [x |-> image_tensor, meta |-> meta_tensor,
                                       target |-> sorted_indices[1]])
    /\ pc' = "cam_generate"
    /\ UNCHANGED <<modelVars, hooks, explAct, calls, req, image_tensor,
                   meta_tensor, fwdLog, probs_sum, probs, sorted_indices,
                   grad_cam, cam_heatmap, result, rendered, prev, viewLogits>>

\* generate lines 59-73
CamGenerate ==
    /\ pc = "cam_generate"
    /\ cam_heatmap' = GenerateCam(explAct[grad_cam][1], explGrad[grad_cam][1])
    /\ pc' = "compose"
    /\ UNCHANGED <<modelVars, hookVars, calls, req, image_tensor, meta_tensor,
                   fwdLog, probs_sum, probs, sorted_indices, grad_cam, result,
                   rendered, prev, viewLogits>>

\* run_inference lines 134-163
Compose ==
    /\ pc = "compose"
    /\ \E u \in UndefCast :
        /\ (\A p \in DOMAIN cam_heatmap : cam_heatmap[p].kind = "num") => u = 0
        /\ result' = ComposeResult(probs, sorted_indices,
                                   Overlay(cam_heatmap, req.image.px, u))
    /\ pc' = "render"
    /\ UNCHANGED <<modelVars, hookVars, calls, req, image_tensor, meta_tensor,
                   fwdLog, probs_sum, probs, sorted_indices, grad_cam,
                   cam_heatmap, rendered, prev, viewLogits>>

\* sorted(zip(classes, probs), key=lambda x: x[1], reverse=True): Python's
\* sort is stable, and reverse=True keeps equal keys in their original order
SortedPairs(classes, ps) ==
    LET Before(i, j) == ps[i] > ps[j] \/ (ps[i] = ps[j] /\ i < j)
    IN  [k \in 1 .. Len(ps) |->
            LET i == CHOOSE i \in 1 .. Len(ps) :
                        Cardinality({j \in 1 .. Len(ps) : Before(j, i)}) = k - 1
            IN  << classes[i], ps[i] >>]

\* app.py 899-1193: the callback lays the result out and returns the page
Render ==
    /\ pc = "render"
    /\ rendered' = [NothingRendered EXCEPT !.kind = "result",
                        !.top = result.top_prediction,
                        !.pairs = SortedPairs(result.classes, result.probabilities)]
    /\ prev' = [req |-> req, result |-> result]
    /\ pc' = "idle"
    /\ UNCHANGED <<modelVars, hookVars, calls, req, localVars, viewLogits>>

Next ==
    \/ LoadWeights \/ LoadFails \/ ModelEval
    \/ Submit \/ TtaStart \/ TtaForward \/ TtaFinish
    \/ CamInit \/ CamForward \/ CamBackward \/ CamGenerate
    \/ Compose \/ Render

Spec == Init /\ [][Next]_vars

-----------------------------------------------------------------------------
(* Requests served after startup, with steps of run_inference that may     *)
(* raise.                                                                  *)

\* the steps of run_inference after decoding at which an exception can
\* surface: the ensemble, the saliency pass and the overlay composition
RaisePoints ==
    {"tta_start", "tta", "cam_init", "cam_forward", "cam_backward",
     "cam_generate", "compose"}

\* a step of run_inference raises (a shape mismatch, an allocation failure):
\* run_inference has no handler, so the exception unwinds its frame, and the
\* callback's except branch (app.py 1195-1213) renders its message. What
\* the call did to the model before the failure stays.
\* mutant: the failure is swallowed and a dictionary of defaults is returned
RaiseReturnsDefaults ==
    /\ pc \in RaisePoints
    /\ result' = [top_prediction |-> IDX_TO_CLASS[0], top_confidence |-> 0]
    /\ rendered' = [NothingRendered EXCEPT !.kind = "result",
                        !.top = IDX_TO_CLASS[0]]
    /\ image_tensor' = << >>
    /\ meta_tensor' = << >>
    /\ fwdLog' = << >>
    /\ probs_sum' = << >>
    /\ probs' = << >>
    /\ sorted_indices' = << >>
    /\ grad_cam' = 0
    /\ cam_heatmap' = << >>
    /\ pc' = "idle"
    /\ UNCHANGED <<modelVars, hookVars, calls, req, prev, viewLogits>>
Raise ==
    /\ pc \in RaisePoints
    /\ rendered' = [NothingRendered EXCEPT !.kind = "error",
                        !.message = "runtime error"]
    /\ image_tensor' = << >>
    /\ meta_tensor' = << >>
    /\ fwdLog' = << >>
    /\ probs_sum' = << >>
    /\ probs' = << >>
    /\ sorted_indices' = << >>
    /\ grad_cam' = 0
    /\ cam_heatmap' = << >>
    /\ pc' = "idle"
    /\ UNCHANGED <<modelVars, hookVars, calls, req, result, prev, viewLogits>>

\* startup has completed with the weights loaded
InitFault ==
    /\ weights \in {0}
    /\ loaded = TRUE
    /\ training = EvalMode
    /\ sortBuild \in {"stable"}
    /\ hooks = << >>
    /\ explAct = [i \in ExplainerIds |-> << >>]
    /\ explGrad = [i \in ExplainerIds |-> << >>]
    /\ paramGrad = << >>
    /\ calls = 0
    /\ pc = "idle"
    /\ req = NoRequest
    /\ image_tensor = << >>
    /\ meta_tensor = << >>
    /\ fwdLog = << >>
    /\ probs_sum = << >>
    /\ probs = << >>
    /\ sorted_indices = << >>
    /\ grad_cam = 0
    /\ cam_heatmap = << >>
    /\ result = << >>
    /\ rendered = NothingRendered
    /\ prev = NoPrevious
    /\ viewLogits = << >>

NextFault ==
    \/ Submit \/ TtaStart \/ TtaForward \/ TtaFinish
    \/ CamInit \/ CamForward \/ CamBackward \/ CamGenerate
    \/ Compose \/ Render \/ Raise

SpecFault == InitFault /\ [][NextFault]_vars

-----------------------------------------------------------------------------
(* The ensemble and the result composition as functions of the per-view    *)
(* logits: predict_tta lines 92-99 and run_inference lines 119-121 and     *)
(* 153-161 applied to logits drawn from a bounded set, whatever network    *)
(* and image produced them.                                                *)

\* the classes a drawn logit vector may single out
PeakClasses == {0, num_classes - 1}

\* logit vectors: level s at class k, 0 elsewhere
LogitVecs ==
    {[c \in Classes |-> IF c = k THEN s ELSE 0] : k \in PeakClasses, s \in 0 .. MaxLogit}

\* len(views)
NumViews == Len(Views(DarkImage))

\* the loop of predict_tta over a sequence of per-view logits
RECURSIVE AccumulateAll(_, _)
AccumulateAll(sum, ls) ==
    IF ls = << >> THEN sum ELSE AccumulateAll(Accumulate(sum, Head(ls)), Tail(ls))

\* predict_tta's return value for the per-view logits ls
Ensemble(ls) == TtaMean(AccumulateAll(ZeroProbs, ls), Len(ls))

NoOverlay == [heat |-> << >>, rgb |-> << >>]

InitTta ==
    /\ weights \in {0}
    /\ loaded = TRUE
    /\ training = EvalMode
    /\ sortBuild \in SortBuilds
    /\ hooks = << >>
    /\ explAct = [i \in ExplainerIds |-> << >>]
    /\ explGrad = [i \in ExplainerIds |-> << >>]
    /\ paramGrad = << >>
    /\ calls = 0
    /\ pc = "fn_tta"
    /\ req = NoRequest
    /\ image_tensor = << >>
    /\ meta_tensor = << >>
    /\ fwdLog = << >>
    /\ probs_sum = << >>
    /\ probs = << >>
    /\ sorted_indices = << >>
    /\ grad_cam = 0
    /\ cam_heatmap = << >>
    /\ result = << >>
    /\ rendered = NothingRendered
    /\ prev = NoPrevious
    /\ viewLogits \in [1 .. NumViews -> LogitVecs]

\* predict_tta lines 92-99 on the drawn logits
EnsembleFn ==
    /\ pc = "fn_tta"
    /\ probs_sum' = AccumulateAll(ZeroProbs, viewLogits)
    /\ probs' = TtaMean(probs_sum', Len(viewLogits))
    /\ pc' = "fn_rank"
    /\ UNCHANGED <<modelVars, hookVars, calls, req, image_tensor, meta_tensor,
                   fwdLog, sorted_indices, grad_cam, cam_heatmap, result,
                   rendered, prev, viewLogits>>

\* run_inference lines 119-121 and 153-163 on the ensemble mean
RankFn ==
    /\ pc = "fn_rank"
    /\ sorted_indices' = SortedIndices(probs, sortBuild)
    /\ result' = ComposeResult(probs, sorted_indices', NoOverlay)
    /\ pc' = "fn_done"
    /\ UNCHANGED <<modelVars, hookVars, calls, req, image_tensor, meta_tensor,
                   fwdLog, probs_sum, probs, grad_cam, cam_heatmap, rendered,
                   prev, viewLogits>>

NextTta == EnsembleFn \/ RankFn

SpecTta == InitTta /\ [][NextTta]_vars

-----------------------------------------------------------------------------
(* CustomGradCAM.generate lines 59-73 as a function of the captured        *)
(* tensors: the explainer holds activations and gradients drawn from a     *)
(* bounded set, and generate's arithmetic runs on them.                    *)

\* positions of the drawn tensors: one row of two cells
Strip == {<<1, 1>>, <<1, 2>>}

CapturedActs == [Channels \X Strip -> (0 - MaxAct) .. MaxAct]
CapturedGrads == [Channels \X Strip -> (0 - MaxGrad) .. MaxGrad]

InitCam ==
    /\ weights \in {0}
    /\ loaded = TRUE
    /\ training = EvalMode
    /\ sortBuild \in {"stable"}
    /\ hooks = << 1 >>
    /\ \E a \in CapturedActs : explAct = [i \in ExplainerIds |-> IF i = 1 THEN << a >> ELSE << >>]
    /\ \E g \in CapturedGrads : explGrad = [i \in ExplainerIds |-> IF i = 1 THEN << g >> ELSE << >>]
    /\ paramGrad = << >>
    /\ calls = 1
    /\ pc = "cam_generate"
    /\ req = NoRequest
    /\ image_tensor = << >>
    /\ meta_tensor = << >>
    /\ fwdLog = << >>
    /\ probs_sum = << >>
    /\ probs = << >>
    /\ sorted_indices = << >>
    /\ grad_cam = 1
    /\ cam_heatmap = << >>
    /\ result = << >>
    /\ rendered = NothingRendered
    /\ prev = NoPrevious
    /\ viewLogits = << >>

NextCam == CamGenerate

SpecCam == InitCam /\ [][NextCam]_vars

-----------------------------------------------------------------------------
(* process_metadata (src/utils.py lines 6-26) as a function of its           *)
(* arguments, drawn from a bounded set of ages, sex values and locations.    *)

\* a value that is not a string (Python's None), for which `.lower()` raises
NoneValue == "<None>"

\* sex.lower() / localization.lower() exist: the argument is a string
HasLower(v) == v # NoneValue

\* the option values of the location dropdown: the catalog names, lowercased
loc_options ==
    << "abdomen", "acral", "back", "chest", "ear", "face", "foot", "genital",
       "hand", "lower extremity", "neck", "scalp", "trunk", "unknown",
       "upper extremity" >>

\* app.py 40: loc.replace("localization_", "") on a catalog key
\* mutant: the prefix is kept
StripPrefixKept(col) == col
StripPrefix(col) ==
    IF \E x \in Range(loc_options) : "localization_" \o x = col
    THEN CHOOSE x \in Range(loc_options) : "localization_" \o x = col
    ELSE col

\* app.py 40: .replace("_", " "); no catalog name holds an underscore once
\* the prefix is gone, a name that keeps its prefix has it replaced
ReplaceUnderscores(s) ==
    IF \E x \in Range(loc_options) : "localization_" \o x = s
    THEN "localization " \o (CHOOSE x \in Range(loc_options) : "localization_" \o x = s)
    ELSE s

\* app.py 40: str.title() capitalises the first letter of every word; the
\* table holds every name of the catalog
Title(s) ==
    CASE s = "abdomen" -> "Abdomen"
      [] s = "acral"   -> "Acral"
      [] s = "back"    -> "Back"
      [] s = "chest"   -> "Chest"
      [] s = "ear"     -> "Ear"
      [] s = "face"    -> "Face"
      [] s = "foot"    -> "Foot"
      [] s = "genital" -> "Genital"
      [] s = "hand"    -> "Hand"
      [] s = "lower extremity" -> "Lower Extremity"
      [] s = "neck"    -> "Neck"
      [] s = "scalp"   -> "Scalp"
      [] s = "trunk"   -> "Trunk"
      [] s = "unknown" -> "Unknown"
      [] s = "upper extremity" -> "Upper Extremity"
      [] OTHER -> s

\* app.py 39-41: the labels of the location dropdown, made from the catalog
LocLabels ==
    [i \in DOMAIN LOC_COLS |-> Title(ReplaceUnderscores(StripPrefix(LOC_COLS[i])))]

\* app.py 770: each option's value is its label lowercased
LocOptionValues == [i \in DOMAIN LocLabels |-> Lower(LocLabels[i])]

\* app.py 749-750: the values of the sex dropdown
SexOptionValues == {"male", "female"}

\* ages in hundredths of a year: negative, zero, ordinary, the population
\* mean, and beyond the form's maximum of 120
Ages == {0 - 1000, 0, 4500, mean_age, 7000, 12000, 15000}

\* sex arguments: catalog keys in several spellings, strings outside the
\* catalog, and a non-string
Sexes == {"male", "Male", "female", "FEMALE", "unknown", "other", "", NoneValue}

\* location arguments: every catalog name, every value the dropdown offers,
\* capitalised labels, and strings outside the catalog
Locations ==
    Range(loc_options) \cup Range(LocOptionValues)
        \cup {"Back", "Lower Extremity", "Upper Extremity", "mars", ""}

InitMeta ==
    /\ weights \in {0}
    /\ loaded = TRUE
    /\ training = EvalMode
    /\ sortBuild \in {"stable"}
    /\ hooks = << >>
    /\ explAct = [i \in ExplainerIds |-> << >>]
    /\ explGrad = [i \in ExplainerIds |-> << >>]
    /\ paramGrad = << >>
    /\ calls = 0
    /\ pc = "fn_meta"
    /\ \E a \in Ages, sx \in Sexes, lc \in Locations :
          req = [NoRequest EXCEPT !.age = a, !.sex = sx, !.loc = lc]
    /\ image_tensor = << >>
    /\ meta_tensor = << >>
    /\ fwdLog = << >>
    /\ probs_sum = << >>
    /\ probs = << >>
    /\ sorted_indices = << >>
    /\ grad_cam = 0
    /\ cam_heatmap = << >>
    /\ result = << >>
    /\ rendered = NothingRendered
    /\ prev = NoPrevious
    /\ viewLogits = << >>

\* process_metadata returns its vector
EncodeFn ==
    /\ pc = "fn_meta"
    /\ HasLower(req.sex) /\ HasLower(req.loc)
    /\ meta_tensor' = process_metadata(req.age, req.sex, req.loc)
    /\ pc' = "fn_meta_done"
    /\ UNCHANGED <<modelVars, hookVars, calls, req, image_tensor, fwdLog,
                   probs_sum, probs, sorted_indices, grad_cam, cam_heatmap,
                   result, rendered, prev, viewLogits>>

\* lines 15, 21: `.lower()` on a value that has none raises AttributeError
EncodeRaises ==
    /\ pc = "fn_meta"
    /\ ~ (HasLower(req.sex) /\ HasLower(req.loc))
    /\ pc' = "fn_meta_raised"
    /\ UNCHANGED <<modelVars, hookVars, calls, req, localVars, rendered, prev,
                   viewLogits>>

NextMeta == EncodeFn \/ EncodeRaises

SpecMeta == InitMeta /\ [][NextMeta]_vars

-----------------------------------------------------------------------------
(* Requests in flight together: the callback (app.py 878-897) calls         *)
(* run_inference on the thread that serves the request, and neither app.py  *)
(* nor inference.py takes a lock, so the steps of two calls on the one      *)
(* module-level model interleave in any order. Each local of run_inference  *)
(* is held once per thread; the model, its hooks, the explainers' captured  *)
(* tensors and the parameter gradients are shared.                          *)

\* the threads serving requests, one call each
Threads == 1 .. MaxCalls

\* startup has completed and no thread has entered run_inference
InitConc ==
    /\ weights \in {0}
    /\ loaded = TRUE
    /\ training = EvalMode
    /\ sortBuild \in {"stable"}
    /\ hooks = << >>
    /\ explAct = [i \in ExplainerIds |-> << >>]
    /\ explGrad = [i \in ExplainerIds |-> << >>]
    /\ paramGrad = << >>
    /\ calls = 0
    /\ pc = [t \in Threads |-> "idle"]
    /\ req = [t \in Threads |-> NoRequest]
    /\ image_tensor = [t \in Threads |-> << >>]
    /\ meta_tensor = [t \in Threads |-> << >>]
    /\ fwdLog = [t \in Threads |-> << >>]
    /\ probs_sum = [t \in Threads |-> << >>]
    /\ probs = [t \in Threads |-> << >>]
    /\ sorted_indices = [t \in Threads |-> << >>]
    /\ grad_cam = [t \in Threads |-> 0]
    /\ cam_heatmap = [t \in Threads |-> << >>]
    /\ result = << >>
    /\ rendered = NothingRendered
    /\ prev = NoPrevious
    /\ viewLogits = << >>

\* what no step of run_inference before its return touches
ConcFrame == <<weights, loaded, sortBuild, result, rendered, prev, viewLogits>>

\* app.py 878-897, run_inference lines 107-115 on thread t
ThreadSubmit(t) ==
    /\ pc[t] = "idle"
    /\ req[t] = NoRequest
    /\ \E up \in {u \in Uploads : Decodes(u)}, pt \in Patients :
        /\ req' = [req EXCEPT ![t] = [image |-> up, age |-> pt.age,
                                      sex |-> pt.sex, loc |-> pt.loc]]
        /\ image_tensor' = [image_tensor EXCEPT ![t] = Preprocess(up.px)]
        /\ meta_tensor' = [meta_tensor EXCEPT
                              ![t] = process_metadata(pt.age, pt.sex, pt.loc)]
    /\ calls' = calls + 1
    /\ pc' = [pc EXCEPT ![t] = "tta_start"]
    /\ UNCHANGED <<ConcFrame, training, hookVars, fwdLog, probs_sum, probs,
                   sorted_indices, grad_cam, cam_heatmap>>

\* predict_tta lines 80-92 on thread t
ThreadTtaStart(t) ==
    /\ pc[t] = "tta_start"
    /\ training' = EvalMode
    /\ probs_sum' = [probs_sum EXCEPT ![t] = ZeroProbs]
    /\ pc' = [pc EXCEPT ![t] = "tta"]
    /\ UNCHANGED <<ConcFrame, hookVars, calls, req, image_tensor, meta_tensor,
                   fwdLog, probs, sorted_indices, grad_cam, cam_heatmap>>

\* predict_tta lines 93-97 on thread t: the pass runs every forward hook
\* that is on the layer, whichever call registered it
ThreadTtaForward(t) ==
    /\ pc[t] = "tta"
    /\ Len(fwdLog[t]) < Len(Views(image_tensor[t]))
    /\ LET view == Views(image_tensor[t])[Len(fwdLog[t]) + 1]
       IN  /\ probs_sum' = [probs_sum EXCEPT ![t] =
                               Accumulate(probs_sum[t],
                                   Forward(weights, view, meta_tensor[t], Len(hooks)))]
           /\ explAct' = ForwardCaptures(hooks, weights, view, explAct)
           /\ fwdLog' = [fwdLog EXCEPT ![t] =
                            Append(fwdLog[t], [x |-> view, meta |-> meta_tensor[t],
                                               grad |-> FALSE, training |-> training,
                                               hooks |-> hooks])]
    /\ UNCHANGED <<ConcFrame, training, hooks, explGrad, paramGrad, calls, pc,
                   req, image_tensor, meta_tensor, probs, sorted_indices,
                   grad_cam, cam_heatmap>>

\* predict_tta line 99, run_inference lines 119-121 on thread t
ThreadTtaFinish(t) ==
    /\ pc[t] = "tta"
    /\ Len(fwdLog[t]) = Len(Views(image_tensor[t]))
    /\ probs' = [probs EXCEPT ![t] =
                    TtaMean(probs_sum[t], Len(Views(image_tensor[t])))]
    /\ sorted_indices' = [sorted_indices EXCEPT ![t] =
                             SortedIndices(probs'[t], sortBuild)]
    /\ pc' = [pc EXCEPT ![t] = "cam_init"]
    /\ UNCHANGED <<ConcFrame, training, hookVars, calls, req, image_tensor,
                   meta_tensor, fwdLog, probs_sum, grad_cam, cam_heatmap>>

\* run_inference lines 124-129 on thread t: the call's own explainer
ThreadCamInit(t) ==
    /\ pc[t] = "cam_init"
    /\ grad_cam' = [grad_cam EXCEPT ![t] = t]
    /\ hooks' = Append(hooks, t)
    /\ pc' = [pc EXCEPT ![t] = "cam_forward"]
    /\ UNCHANGED <<ConcFrame, training, explAct, explGrad, paramGrad, calls,
                   req, image_tensor, meta_tensor, fwdLog, probs_sum, probs,
                   sorted_indices, cam_heatmap>>

\* generate lines 53-56 on thread t; the graph of the pass keeps the backward
\* hooks that are on the layer when the pass runs
ThreadCamForward(t) ==
    /\ pc[t] = "cam_forward"
    /\ paramGrad' = << >>
    /\ explAct' = ForwardCaptures(hooks, weights, image_tensor[t], explAct)
    /\ fwdLog' = [fwdLog EXCEPT ![t] =
                     Append(fwdLog[t], [x |-> image_tensor[t],
                                        meta |-> meta_tensor[t],
                                        grad |-> TRUE, training |-> training,
                                        hooks |-> hooks])]
    /\ pc' = [pc EXCEPT ![t] = "cam_backward"]
    /\ UNCHANGED <<ConcFrame, training, hooks, explGrad, calls, req,
                   image_tensor, meta_tensor, probs_sum, probs, sorted_indices,
                   grad_cam, cam_heatmap>>

\* generate line 57 on thread t: score.backward() runs the backward hooks
\* kept by the pass and adds to the parameter gradients
ThreadCamBackward(t) ==
    /\ pc[t] = "cam_backward"
    /\ explGrad' = BackwardCaptures(fwdLog[t][Len(fwdLog[t])].hooks, weights,
                                    sorted_indices[t][1], explGrad)
    /\ paramGrad' = Append(paramGrad, [x |-> image_tensor[t],
                                       meta |-> meta_tensor[t],
                                       target |-> sorted_indices[t][1]])
    /\ pc' = [pc EXCEPT ![t] = "cam_generate"]
    /\ UNCHANGED <<ConcFrame, training, hooks, explAct, calls, req,
                   image_tensor, meta_tensor, fwdLog, probs_sum, probs,
                   sorted_indices, grad_cam, cam_heatmap>>

\* generate lines 59-73 on thread t: the heatmap is made from what the
\* call's explainer holds when the lines run
ThreadCamGenerate(t) ==
    /\ pc[t] = "cam_generate"
    /\ cam_heatmap' = [cam_heatmap EXCEPT ![t] =
                          GenerateCam(explAct[grad_cam[t]][1],
                                      explGrad[grad_cam[t]][1])]
    /\ pc' = [pc EXCEPT ![t] = "compose"]
    /\ UNCHANGED <<ConcFrame, training, hookVars, calls, req, image_tensor,
                   meta_tensor, fwdLog, probs_sum, probs, sorted_indices,
                   grad_cam>>

NextConc ==
    \E t \in Threads :
        \/ ThreadSubmit(t)
        \/ ThreadTtaStart(t)
        \/ ThreadTtaForward(t)
        \/ ThreadTtaFinish(t)
        \/ ThreadCamInit(t)
        \/ ThreadCamForward(t)
        \/ ThreadCamBackward(t)
        \/ ThreadCamGenerate(t)

SpecConc == InitConc /\ [][NextConc]_vars

-----------------------------------------------------------------------------
(* Properties *)

\* a result dictionary has been returned and not yet replaced
HasResult ==
    \/ pc \in {"render", "fn_done"}
    \/ pc = "idle" /\ rendered.kind = "result"

AbsDiff(a, b) == IF a >= b THEN a - b ELSE b - a

\* the largest entry of a list, and the second largest of the list sorted
\* in descending order (equal to the largest when it occurs twice)
Largest(ps) == SetMax(Range(ps))
SecondLargest(ps) ==
    IF Cardinality({i \in DOMAIN ps : ps[i] = Largest(ps)}) > 1
    THEN Largest(ps)
    ELSE SetMax(Range(ps) \ {Largest(ps)})

\* C1: the returned `probabilities` list has exactly 7 entries, every entry
\* lies in [0,1], and the entries sum to 1 within 1e-4.
C1_ProbabilitiesFormDistribution ==
    HasResult =>
        /\ Len(result.probabilities) = 7
        /\ \A i \in DOMAIN result.probabilities :
              0 <= result.probabilities[i] /\ result.probabilities[i] <= One
        /\ AbsDiff(SumSeq(result.probabilities), One) <= One \div 10000

\* C1 witness: a returned list whose entries do not sum to exactly 1, so the
\* tolerance is what makes the claim true
C1_Witness ==
    /\ HasResult
    /\ pc = "fn_done"
    /\ SumSeq(result.probabilities) # One

\* C3: margin is the (float32) difference of the largest and the second
\* largest returned probability, within half a unit in the last place of the
\* exact difference, and is_uncertain holds exactly when margin < 0.15
\* (5 * margin < 3/4).
C3_MarginAndUncertainty ==
    HasResult =>
        LET hi == Largest(result.probabilities)
            lo == SecondLargest(result.probabilities)
        IN  /\ result.margin = FSub(hi, lo)
            /\ 2 * AbsDiff(result.margin, hi - lo) <= Ulp(hi - lo)
            /\ result.is_uncertain <=> (5 * result.margin < 3 * (One \div 4))

\* C3 witness: a result that is not uncertain and whose margin was rounded
C3_Witness ==
    /\ HasResult
    /\ pc = "fn_done"
    /\ ~ result.is_uncertain
    /\ result.margin # Largest(result.probabilities) - SecondLargest(result.probabilities)

\* C3 witness of the other side: an uncertain result with a nonzero margin
C3_WitnessUncertain ==
    /\ HasResult
    /\ pc = "fn_done"
    /\ result.is_uncertain
    /\ result.margin > 0

\* C5: top_prediction is one of the 7 canonical names, sits at the index of a
\* maximal entry of `probabilities`, and top_confidence is that entry.
C5_TopIsArgmax ==
    HasResult =>
        /\ result.top_prediction \in Range(LESION_TYPE_DICT)
        /\ \E i \in DOMAIN result.classes :
              /\ result.classes[i] = result.top_prediction
              /\ result.probabilities[i] = Largest(result.probabilities)
              /\ result.top_confidence = result.probabilities[i]
        /\ result.top_confidence = Largest(result.probabilities)

\* C5 witness: a result in which two classes share the largest probability
C5_Witness ==
    /\ HasResult
    /\ pc = "fn_done"
    /\ SecondLargest(result.probabilities) = Largest(result.probabilities)

\* the orders in which the views can be accumulated
ViewOrders ==
    {f \in [1 .. NumViews -> 1 .. NumViews] : \A i, j \in 1 .. NumViews : f[i] = f[j] => i = j}

Permuted(ls, f) == Tabulated([i \in 1 .. Len(ls) |-> ls[f[i]]])

\* every entry of p is within tol quanta of the same entry of q
Within(p, q, tol) == \A c \in Classes : AbsDiff(p[c], q[c]) <= tol

\* the per-view softmax vectors of the drawn logits
SoftmaxEach(ls) == Tabulated([i \in 1 .. Len(ls) |-> Softmax(ls[i])])

\* the accumulation loop and the division on per-view probability vectors
RECURSIVE AddAll(_, _)
AddAll(sum, ps) == IF ps = << >> THEN sum ELSE AddAll(AddProbs(sum, Head(ps)), Tail(ps))
MeanOf(ps) == TtaMean(AddAll(ZeroProbs, ps), Len(ps))

\* the averages of ps taken in every order
AllOrderMeans(ps) == {MeanOf(Permuted(ps, f)) : f \in ViewOrders}

\* C8 as stated: for every permutation of the four views the averaged
\* probability vector is the same.
C8_OrderIndependentExactly ==
    pc = "fn_done" =>
        \A m \in AllOrderMeans(SoftmaxEach(viewLogits)) : m = probs

\* C8 amended: for every permutation of the four views, every entry of the
\* averaged vector is within 1e-6 of the entry the program's order gives.
C8_OrderIndependentWithinTolerance ==
    pc = "fn_done" =>
        \A m \in AllOrderMeans(SoftmaxEach(viewLogits)) :
            Within(m, probs, One \div 1000000)

\* C8 witness: some order of the views gives a different average
C8_Witness ==
    /\ pc = "fn_done"
    /\ \E m \in AllOrderMeans(SoftmaxEach(viewLogits)) : m # probs


\* C2: in every result `classes` is the catalog in index order 0..6 and
\* probabilities[i] is the ensemble probability of class i; laying the
\* result out (sorting the pairs for display) leaves both lists as they were.
C2_ListsStayIndexAligned ==
    HasResult =>
        /\ result.classes = LESION_TYPE_DICT
        /\ \A c \in Classes : result.probabilities[c + 1] = probs[c]
        /\ Len(result.probabilities) = Len(result.classes)

\* C2 witness: a result has been laid out, and the displayed order differs
\* from the catalog order
C2_Witness ==
    /\ pc = "idle"
    /\ rendered.kind = "result"
    /\ \E k \in DOMAIN rendered.pairs : rendered.pairs[k][1] # LESION_TYPE_DICT[k]

\* the classes that share the largest ensemble probability
TopTied == {c \in Classes : \A d \in Classes : probs[d] <= probs[c]}

\* the saliency pass has run backward from its target class
SaliencyRan == pc \in {"cam_generate", "compose", "render"}

\* C4 as stated: when several classes share the largest probability, the one
\* with the lowest catalog index is top_prediction and the saliency target.
C4_TieGoesToLowestIndex ==
    /\ (SaliencyRan /\ Cardinality(TopTied) > 1) =>
            paramGrad[Len(paramGrad)].target = SetMin(TopTied)
    /\ (pc = "render" /\ Cardinality(TopTied) > 1) =>
            result.top_prediction = IDX_TO_CLASS[SetMin(TopTied)]

\* C6: a call whose inputs equal those of the last completed call returns the
\* same probabilities and the same top_prediction.
C6_RepeatedCallSameOutput ==
    (pc = "render" /\ prev.req = req) =>
        /\ result.probabilities = prev.result.probabilities
        /\ result.top_prediction = prev.result.top_prediction

\* C6 witness: the second call has returned, with the inputs of the first,
\* while the first call's hooks and captured tensors are still on the model
C6_Witness ==
    /\ pc = "render"
    /\ prev.req = req
    /\ Len(hooks) > 1
    /\ explAct[hooks[1]] # << >>
    /\ explGrad[hooks[1]] # << >>

\* predict_tta has just returned
TtaReturned == pc = "cam_init"

\* the network's softmax output for each of the first n logged runs
LoggedSoftmax(n) ==
    Tabulated([i \in 1 .. n |-> Softmax(Forward(weights, fwdLog[i].x, fwdLog[i].meta, 0))])

\* the four vectors of s summed per class from zero, the sum divided by 4
SumOfFourOverFour(s) ==
    [c \in Classes |->
        FDivInt(FAdd(FAdd(FAdd(FAdd(0, s[1][c]), s[2][c]), s[3][c]), s[4][c]), 4)]

\* C7: the ensemble runs the network without gradients exactly four times,
\* on the preprocessed tensor, its mirror image along the width, its mirror
\* image along the height and its quarter turn, each time with the same
\* metadata vector; the result is the per-class sum of the four softmax
\* vectors divided by 4.
C7_FourViewsAveraged ==
    TtaReturned =>
        /\ Len(fwdLog) = 4
        /\ \A i \in 1 .. 4 : ~ fwdLog[i].grad
        /\ \A i \in 1 .. 4 : fwdLog[i].meta = meta_tensor
        /\ fwdLog[1].x = image_tensor
        /\ \A p \in Pos :
              /\ fwdLog[2].x[p] = image_tensor[<<p[1], GridN + 1 - p[2]>>]
              /\ fwdLog[3].x[p] = image_tensor[<<GridN + 1 - p[1], p[2]>>]
              /\ fwdLog[4].x[p] = image_tensor[<<p[2], GridN + 1 - p[1]>>]
        /\ probs = SumOfFourOverFour(LoggedSoftmax(4))

\* C7 witness: the ensemble has returned for an image whose four views are
\* four different tensors
C7_Witness ==
    /\ TtaReturned
    /\ Cardinality({fwdLog[i].x : i \in 1 .. 4}) = 4

\* generate has returned its heatmap
CamReturned == pc = "compose"

\* C9 as stated: every value of the heatmap generate returns is a number in
\* [0,1], never a NaN or the result of a division by zero, whatever tensors
\* the hooks captured.
C9_HeatmapInUnitInterval ==
    CamReturned =>
        \A p \in DOMAIN cam_heatmap :
            /\ cam_heatmap[p].kind = "num"
            /\ 0 <= cam_heatmap[p].v
            /\ cam_heatmap[p].v <= One

\* the map before normalisation, from the tensors the explainer holds: per
\* position, the sum over channels of the channel's gradient total times its
\* activation, negative sums set to zero
RawMapOf(a, g) ==
    [p \in PositionsOf(a) |->
        LET v == SumOver([ch \in ChannelsOf(a) |->
                             SumOver([q \in PositionsOf(g) |-> g[<<ch, q>>]], PositionsOf(g))
                             * a[<<ch, p>>]],
                         ChannelsOf(a))
        IN  IF v > 0 THEN v ELSE 0]

\* cam is the min-max normalisation of raw: numbers, (raw - min) / (max - min),
\* with smallest value 0 and largest value 1
IsMinMaxNormalised(cam, raw, lo, hi) ==
    /\ \A p \in DOMAIN cam : cam[p].kind = "num"
    /\ \A p \in DOMAIN cam : cam[p].v = FRatio(raw[p] - lo, hi - lo)
    /\ \E p \in DOMAIN cam : cam[p].v = 0
    /\ \E p \in DOMAIN cam : cam[p].v = One
    /\ \A p \in DOMAIN cam : 0 <= cam[p].v /\ cam[p].v <= One

\* C10 as stated: the returned map is the min-max normalisation (minimum 0,
\* maximum 1) of the ReLU of the gradient-mean-weighted sum of the activation
\* channels when that raw map's maximum is nonzero, and the all-zero map
\* otherwise.
C10_MinMaxNormalisedRawMap ==
    CamReturned =>
        LET raw == RawMapOf(explAct[grad_cam][1], explGrad[grad_cam][1])
        IN  /\ DOMAIN cam_heatmap = DOMAIN raw
            /\ IF SetMax(Range(raw)) # 0
               THEN IsMinMaxNormalised(cam_heatmap, raw, SetMin(Range(raw)), SetMax(Range(raw)))
               ELSE \A p \in DOMAIN raw : cam_heatmap[p] = Num(0)

\* process_metadata has returned its vector
MetaReturned == pc = "fn_meta_done"

\* the indices of the block lo..hi at which the vector v is not zero
SetSlots(v, lo, hi) == {i \in lo .. hi : v[i] # 0}

\* C12: for a numeric age and string arguments process_metadata does not
\* raise and returns a vector of 19 entries; a sex outside the catalog
\* leaves indices 1..3 zero and a location outside it leaves 4..18 zero.
C12_OutOfCatalogLeavesBlockZero ==
    /\ (req.sex # NoneValue /\ req.loc # NoneValue) => pc # "fn_meta_raised"
    /\ MetaReturned =>
          /\ DOMAIN meta_tensor = 0 .. 18
          /\ req.sex \in {"other", ""} => SetSlots(meta_tensor, 1, 3) = {}
          /\ req.loc \in {"mars", ""} => SetSlots(meta_tensor, 4, 18) = {}

\* C12 witness: a vector was returned for a negative age with a sex and a
\* location that are both outside the catalogs
C12_Witness ==
    /\ MetaReturned
    /\ req.age < 0
    /\ req.sex = "other"
    /\ req.loc = "mars"

\* the slot of each recognised sex argument, in the spellings drawn
SexSlot ==
    [sx \in {"female", "FEMALE", "male", "Male", "unknown"} |->
        IF sx \in {"female", "FEMALE"} THEN 1 ELSE IF sx \in {"male", "Male"} THEN 2 ELSE 3]

\* the position k = 0..14 of each recognised location argument
LocPosition ==
    [lc \in Range(loc_options) \cup {"Back", "Lower Extremity", "Upper Extremity"} |->
        IF lc = "Back" THEN 2
        ELSE IF lc = "Lower Extremity" THEN 9
        ELSE IF lc = "Upper Extremity" THEN 14
        ELSE (CHOOSE k \in DOMAIN loc_options : loc_options[k] = lc) - 1]

\* C13: index 0 holds the standardized age; a recognised sex sets exactly
\* index 1 (female), 2 (male) or 3 (unknown) to 1; the k-th location sets
\* exactly index 4+k to 1; nothing else in 1..18 is written.
C13_FixedLayout ==
    MetaReturned =>
        /\ meta_tensor[0] = StdAge(req.age)
        /\ req.sex \in DOMAIN SexSlot =>
              /\ SetSlots(meta_tensor, 1, 3) = {SexSlot[req.sex]}
              /\ meta_tensor[SexSlot[req.sex]] = One
        /\ req.loc \in DOMAIN LocPosition =>
              /\ SetSlots(meta_tensor, 4, 18) = {4 + LocPosition[req.loc]}
              /\ meta_tensor[4 + LocPosition[req.loc]] = One
        /\ req.sex \notin DOMAIN SexSlot => SetSlots(meta_tensor, 1, 3) = {}
        /\ req.loc \notin DOMAIN LocPosition => SetSlots(meta_tensor, 4, 18) = {}

\* C13 witness: the last sex slot and the last location slot are both set
C13_Witness ==
    /\ MetaReturned
    /\ meta_tensor[3] = One
    /\ meta_tensor[18] = One

\* C14 as stated: in every vector exactly one of the indices 1..3 is 1, at
\* most one of 4..18 is 1, and the other entries of the two blocks are 0.
C14_ExactlyOneSexSlot ==
    MetaReturned =>
        /\ Cardinality(SetSlots(meta_tensor, 1, 3)) = 1
        /\ Cardinality(SetSlots(meta_tensor, 4, 18)) <= 1
        /\ \A i \in 1 .. 18 : meta_tensor[i] \in {0, One}

\* C14 amended: at most one of the indices 1..3 is 1, and exactly one when
\* the sex is in the catalog; at most one of 4..18 is 1; the other entries
\* of the two blocks are 0.
C14_AtMostOneSlotPerBlock ==
    MetaReturned =>
        /\ Cardinality(SetSlots(meta_tensor, 1, 3)) <= 1
        /\ req.sex \in {"female", "FEMALE", "male", "Male", "unknown"}
              <=> Cardinality(SetSlots(meta_tensor, 1, 3)) = 1
        /\ Cardinality(SetSlots(meta_tensor, 4, 18)) <= 1
        /\ \A i \in 1 .. 18 : meta_tensor[i] \in {0, One}

\* C14 witness: a vector whose sex block is all zero while a location slot is set
C14_Witness ==
    /\ MetaReturned
    /\ SetSlots(meta_tensor, 1, 3) = {}
    /\ SetSlots(meta_tensor, 4, 18) # {}

\* C15: index 0 is (age - 51.86) / 16.96 (here to within 2^-13, with ages in
\* hundredths of a year) for every age drawn, inside or outside [0,120];
\* age 51.86 gives exactly 0.
C15_AgeStandardizedUnclamped ==
    MetaReturned =>
        /\ AbsDiff((meta_tensor[0] \div 2^14) * 1696, (req.age - 5186) * 2^14) <= 2 * 1696
        /\ req.age = 5186 => meta_tensor[0] = 0
        /\ req.age < 5186 => meta_tensor[0] < 0
        /\ req.age > 5186 => meta_tensor[0] > 0

\* C15 witness: an age above 120 years was standardized to more than 5
C15_Witness ==
    /\ MetaReturned
    /\ req.age > 12000
    /\ meta_tensor[0] > 5 * One

\* C15 witness of the other side: a negative age, standardized below the
\* value of age 0
C15_WitnessNegative ==
    /\ MetaReturned
    /\ req.age < 0
    /\ meta_tensor[0] < StdAge(0)

\* the forward passes logged so far in this call: the first n without
\* gradients, the rest (at most one) with gradients on the identity view
PassesAre(n, tracked) ==
    /\ Len(fwdLog) = n + tracked
    /\ \A i \in 1 .. n : ~ fwdLog[i].grad
    /\ \A i \in (n + 1) .. (n + tracked) :
          /\ fwdLog[i].grad
          /\ fwdLog[i].x = image_tensor
          /\ fwdLog[i].meta = meta_tensor

\* C11: a call runs four gradient-free forward passes, then exactly one
\* gradient-tracked pass on the identity view, then exactly one backward
\* pass, from the logit of the top class of this call's ensemble
\* probabilities, then composes the result; no step is run twice.
C11_FixedOrderNoRetries ==
    /\ pc = "tta" => \E n \in 0 .. 4 : PassesAre(n, 0)
    /\ pc \in {"cam_init", "cam_forward"} => PassesAre(4, 0)
    /\ pc = "cam_backward" => PassesAre(4, 1) /\ paramGrad = << >>
    /\ pc \in {"cam_generate", "compose", "render"} =>
          /\ PassesAre(4, 1)
          /\ Len(paramGrad) = 1
          /\ paramGrad[1].x = image_tensor
          /\ paramGrad[1].meta = meta_tensor
          /\ paramGrad[1].target = sorted_indices[1]
          /\ \A c \in Classes : probs[c] <= probs[paramGrad[1].target]
    /\ pc = "render" => result.top_prediction = IDX_TO_CLASS[paramGrad[1].target]

\* C11 witness: the second successful call has composed its result, with
\* the first call's hooks still registered
C11_Witness ==
    /\ pc = "render"
    /\ calls = 2
    /\ Len(hooks) = 2
    /\ Len(fwdLog) = 5
    /\ Len(paramGrad) = 1

\* the callback has just been invoked with bytes that do not decode
DecodeFailureStep == calls' = calls + 1 /\ req'.image.kind = "corrupt"

\* C16: a call whose image bytes cannot be decoded runs no forward or
\* backward pass, registers no hook, changes no gradient or model state, and
\* ends at once (no retry) with an error shown in place of a result.
C16_DecodeFailureTouchesNothing ==
    [][DecodeFailureStep =>
          /\ fwdLog' = << >>
          /\ hooks' = hooks
          /\ explAct' = explAct
          /\ explGrad' = explGrad
          /\ paramGrad' = paramGrad
          /\ weights' = weights
          /\ training' = training
          /\ result' = << >>
          /\ rendered'.kind = "error"
          /\ rendered'.message # ""
          /\ pc' = "idle"]_vars

\* C16 witness: a decode failure has been shown after an earlier call had
\* registered its hooks and left gradients behind
C16_Witness ==
    /\ pc = "idle"
    /\ req.image.kind = "corrupt"
    /\ rendered.kind = "error"
    /\ Len(hooks) = 1
    /\ paramGrad # << >>
    /\ fwdLog = << >>

\* the seven fields of a result dictionary
ResultFields ==
    {"top_prediction", "top_confidence", "margin", "is_uncertain", "classes",
     "probabilities", "gradcam_base64"}

\* run_inference is left without having reached its return statement
FailureStep == pc \in RaisePoints /\ pc' = "idle"

\* C17: a failure at any step of run_inference reaches the caller as an
\* error with a message and without a result; whenever a result exists it
\* has all seven fields, and otherwise there is none at all.
C17_FailurePropagatesNoPartialResult ==
    /\ [](IF HasResult THEN DOMAIN result = ResultFields ELSE result = << >>)
    /\ [][FailureStep =>
             /\ result' = << >>
             /\ rendered'.kind = "error"
             /\ rendered'.message # ""]_vars

\* C17 witness: a call failed after its explainer had registered its hooks
\* and captured activations; an error is shown and no result exists
C17_Witness ==
    /\ pc = "idle"
    /\ req.image.kind = "image"
    /\ rendered.kind = "error"
    /\ result = << >>
    /\ hooks # << >>
    /\ explAct[hooks[Len(hooks)]] # << >>

\* module import has finished: the process serves requests
StartupDone == pc \notin {"load", "eval"}

\* C18: when loading the weights failed, startup still completes with the
\* model in evaluation mode, requests are accepted and served, and a result
\* has exactly the seven fields it has when the weights loaded.
C18_ServesWithoutWeights ==
    (~ loaded /\ StartupDone) =>
        /\ ~ training
        /\ (pc = "idle" /\ calls < MaxCalls) => ENABLED Submit
        /\ HasResult => DOMAIN result = ResultFields

\* C18 witness: with the weights not loaded, a second request has been
\* served and its result returned
C18_Witness ==
    /\ ~ loaded
    /\ pc = "render"
    /\ calls = 2
    /\ DOMAIN result = ResultFields

\* C19: the weight file is read in one step at startup, before any request,
\* and never again; from then on no step of any call, successful or failed,
\* changes the model parameters.
C19_WeightsImmutableAfterStartup ==
    /\ [](calls > 0 => StartupDone)
    /\ [][pc = "load" => pc' = "eval"]_vars
    /\ [][pc # "load" => pc' # "load"]_vars
    /\ [][pc # "load" => weights' = weights /\ loaded' = loaded]_vars
    /\ [][loaded => loaded']_vars

\* C19 witness: the weights were loaded, a call has succeeded and left
\* parameter gradients behind, and a later call has failed
C19_Witness ==
    /\ loaded
    /\ pc = "idle"
    /\ calls = 2
    /\ paramGrad # << >>
    /\ hooks # << >>
    /\ rendered.kind = "error"

\* C20: every forward pass of a request, the four ensemble passes and the
\* saliency pass alike, ran with the model in evaluation mode, whether or
\* not the weights loaded and whatever calls came before.
C20_ForwardPassesInEvalMode ==
    /\ \A i \in DOMAIN fwdLog : fwdLog[i].training = FALSE
    /\ pc \in {"tta", "cam_init", "cam_forward", "cam_backward"} => training = FALSE

\* C20 witness: all five passes of a second call have run on a model whose
\* weights did not load
C20_Witness ==
    /\ ~ loaded
    /\ calls = 2
    /\ Len(hooks) = 2
    /\ Len(fwdLog) = 5
    /\ fwdLog[5].grad

\* run_inference is executing (or has just returned its result)
InCall == pc \in RaisePoints \cup {"render"}

\* C22: throughout a call the preprocessed tensor is the one made from the
\* request's image when the call began; the four ensemble passes ran on its
\* four views and the saliency pass on the tensor itself.
C22_OneTensorForAllPasses ==
    InCall =>
        /\ image_tensor = Preprocess(req.image.px)
        /\ \A i \in DOMAIN fwdLog :
              IF i <= 4 THEN fwdLog[i].x = Views(image_tensor)[i]
              ELSE fwdLog[i].x = image_tensor

\* C22 witness: the saliency pass has run on an image whose views all
\* differ from the tensor
C22_Witness ==
    /\ pc = "cam_backward"
    /\ Len(fwdLog) = 5
    /\ req.image.px = Ramp
    /\ \A i \in 2 .. 4 : fwdLog[i].x # image_tensor

\* C23: the model never holds the gradients of more than one backward
\* pass, and after a saliency backward pass it holds those of that pass
\* alone (its input and its target class).
C23_GradientsOfLastBackwardOnly ==
    /\ Len(paramGrad) <= 1
    /\ pc \in {"cam_generate", "compose", "render"} =>
          paramGrad = << [x |-> image_tensor, meta |-> meta_tensor,
                          target |-> sorted_indices[1]] >>

\* C23 witness: a second backward pass has run on a model that held the
\* gradients of an earlier call for a different input
C23_Witness ==
    /\ pc = "cam_generate"
    /\ Len(hooks) = 2
    /\ Len(paramGrad) = 1
    /\ prev.req # NoRequest
    /\ prev.req.image # req.image

\* one pass of the ensemble loop
EnsembleStep == pc = "tta" /\ Len(fwdLog') = Len(fwdLog) + 1

\* C27: an ensemble forward pass records no gradients and leaves the
\* parameter gradients and every captured saliency gradient as they were.
C27_EnsembleLeavesGradientsAlone ==
    [][EnsembleStep =>
          /\ fwdLog'[Len(fwdLog')].grad = FALSE
          /\ paramGrad' = paramGrad
          /\ explGrad' = explGrad]_vars

\* C27 witness: an ensemble has finished on a model that holds the
\* parameter gradients and a captured gradient of an earlier call
C27_Witness ==
    /\ pc = "cam_init"
    /\ Len(fwdLog) = 4
    /\ paramGrad # << >>
    /\ hooks # << >>
    /\ explGrad[hooks[1]] # << >>

\* predict_tta on a model that carries no hook
FreshProbs(w, x, meta) ==
    Ensemble([i \in 1 .. Len(Views(x)) |-> Forward(w, Views(x)[i], meta, 0)])

\* the heatmap of an explainer that is alone on the target layer
FreshCam(w, x, target) == GenerateCam(LayerOut(w, x), LayerGrad(w, target))

\* what run_inference returns for request r on a model with parameters w that
\* has served nothing before: one result per outcome of the undefined cast
FreshResultsOf(p, sorted, cam, px) ==
    { ComposeResult(p, sorted, Overlay(cam, px, u)) :
        u \in {v \in UndefCast :
                  (\A q \in DOMAIN cam : cam[q].kind = "num") => v = 0} }

FreshRanked(w, x, px, p, sorted) ==
    FreshResultsOf(p, sorted, FreshCam(w, x, sorted[1]), px)

FreshWithProbs(w, x, px, p, build) ==
    FreshRanked(w, x, px, p, SortedIndices(p, build))

FreshResults(w, r, build) ==
    FreshWithProbs(w, Preprocess(r.image.px), r.image.px,
                   FreshProbs(w, Preprocess(r.image.px),
                              process_metadata(r.age, r.sex, r.loc)),
                   build)

\* C30: whatever earlier calls did, failed ones included, a call that
\* returns returns a result the freshly started model gives for its request.
C30_FailedCallLeavesNoTrace ==
    pc = "render" => result \in FreshResults(weights, req, sortBuild)

\* C30 witness: a call has returned after an earlier call failed past the
\* registration of its hooks and its saliency passes
C30_Witness ==
    /\ pc = "render"
    /\ prev = NoPrevious
    /\ Len(hooks) = 2
    /\ explAct[hooks[1]] # << >>
    /\ explGrad[hooks[1]] # << >>
    /\ paramGrad # << >>

\* the tensors an explainer holds, reachable from the model through the
\* explainer's hooks (bound methods) on the target layer
ReferencedFromModel ==
    { id \in Range(hooks) : explAct[id] # << >> \/ explGrad[id] # << >> }

\* C24: once run_inference has returned, no explainer hooked on the shared
\* model still holds an activation or gradient tensor.
C24_NoCapturedTensorAfterReturn ==
    pc = "render" => ReferencedFromModel = {}

\* each explainer registers one forward and one backward hook
HooksOnLayer == 2 * Len(hooks)

\* C25: the target layer never carries more than two hooks, however many
\* calls have been served.
C25_AtMostTwoHooks == HooksOnLayer <= 2

\* C28: the dropdown offers 15 distinct location values and the i-th of
\* them sets exactly the i-th slot of the location block; the two sex values
\* set the female (1) and male (2) slots, and never index 3.
C28_FrontEndValuesRoundTrip ==
    /\ Len(LocOptionValues) = 15
    /\ \A i, j \in DOMAIN LocOptionValues :
          i # j => LocOptionValues[i] # LocOptionValues[j]
    /\ (MetaReturned /\ req.sex \in SexOptionValues) =>
          /\ SetSlots(meta_tensor, 1, 3) = {IF req.sex = "male" THEN 2 ELSE 1}
          /\ meta_tensor[3] = 0
    /\ MetaReturned =>
          \A i \in DOMAIN LocOptionValues :
              req.loc = LocOptionValues[i] =>
                  /\ SetSlots(meta_tensor, 4, 18) = {3 + i}
                  /\ meta_tensor[3 + i] = One

\* C28 witness: the last location the dropdown offers, a two-word name, was
\* encoded together with a sex the dropdown offers
C28_Witness ==
    /\ MetaReturned
    /\ req.sex = "female"
    /\ req.loc = LocOptionValues[15]
    /\ LocLabels[15] = "Upper Extremity"
    /\ meta_tensor[18] = One
    /\ meta_tensor[1] = One

\* C29: in every result 0 <= margin <= top_confidence <= 1 and
\* top_confidence >= 1/7; when the two largest probabilities are equal the
\* margin is 0 and the result is flagged uncertain.
C29_MarginAndConfidenceBounds ==
    HasResult =>
        /\ 0 <= result.margin
        /\ result.margin <= result.top_confidence
        /\ result.top_confidence <= One
        /\ num_classes * result.top_confidence >= One
        /\ Largest(result.probabilities) = SecondLargest(result.probabilities) =>
              /\ result.margin = 0
              /\ result.is_uncertain

\* C29 witness: two classes share the top of a result that is not uniform
C29_Witness ==
    /\ HasResult
    /\ pc = "fn_done"
    /\ Largest(result.probabilities) = SecondLargest(result.probabilities)
    /\ \E i \in DOMAIN result.probabilities :
          result.probabilities[i] < result.top_confidence
    /\ result.margin = 0
    /\ result.is_uncertain

\* C29 witness of the lower bound: all seven classes are equally likely
C29_WitnessUniform ==
    /\ HasResult
    /\ pc = "fn_done"
    /\ \A i \in DOMAIN result.probabilities :
          result.probabilities[i] = result.top_confidence
    /\ result.top_confidence = FRatio(1, num_classes)

\* thread t has run its first ensemble pass and not yet finished its
\* saliency backward pass
Occupies(t) ==
    \/ pc[t] = "tta" /\ Len(fwdLog[t]) >= 1
    \/ pc[t] \in {"cam_init", "cam_forward", "cam_backward"}

\* C21: no two calls are between their first ensemble pass and the end of
\* their saliency pass at the same time.
C21_ModelHeldExclusively ==
    \A t, u \in Threads : (t # u /\ Occupies(t)) => ~ Occupies(u)

\* C26: the heatmap a call has computed is the one made from the layer output
\* for the call's own input and the gradient of the call's own target class.
C26_HeatmapFromOwnCaptures ==
    \A t \in Threads :
        pc[t] = "compose" =>
            cam_heatmap[t] = FreshCam(weights, image_tensor[t], sorted_indices[t][1])

=============================================================================
